---- MODULE Spec2Model ----
(***************************************************************************)
(* The semantic file index of SonjayOS                                     *)
(* (src/src/ai/embeddings/semantic_search.py, class SemanticSearch).       *)
(*                                                                         *)
(* State: the filesystem the indexer walks, the two SQLite tables `files`  *)
(* and `embeddings` with their AUTOINCREMENT counters, the write lock and  *)
(* the open write transaction of every connection, the position of every   *)
(* index_directory call, the engine's index_stats and the list the last    *)
(* query returned.                                                         *)
(*                                                                         *)
(* A write transaction is private to its connection until COMMIT: readers  *)
(* (search, get_similar_files, _is_file_unchanged) read the committed      *)
(* tables.  The columns file_size, last_modified, content_hash and         *)
(* created_at are written and copied to results but never read by any      *)
(* decision of the code; they are left out of the rows.                    *)
(***************************************************************************)
EXTENDS Integers, Sequences, FiniteSets, TLC

\* ------------------------------------------------------------------ bounds
\* index_directory calls made in all
MaxRuns == 2
\* filesystem changes made between the calls
MaxEdits == 1
\* chunks the list of _split_content holds when memory runs out
MaxListLen == 12
\* chunks in a list given to _generate_embeddings
MaxChunks == 3
\* largest configured batch_size
MaxBatch == 3

\* ------------------------------------------------------------- filesystem
Absent == "<absent>"
\* byte contents a file can have: "" is the empty file, "x" a text of two
\* chunks, "y" a text of one chunk; "z", which only some directories hold, is
\* a text of one chunk that the provider maps to the zero vector
Contents == {"", "x", "y"}
Paths == {"a.md", "b.TXT", "c.bin"}
\* the files whose bytes change in the model; c.bin is always there
Editable == {"a.md", "b.TXT"}
\* the order in which rglob / iterdir yield the directory (the OS's order)
EnumOrder == <<"b.TXT", "c.bin", "a.md">>
\* rank of a path in string order
PathRank(p) == CASE p = "a.md" -> 1 [] p = "b.TXT" -> 2 [] p = "c.bin" -> 3

Suffix(p) == CASE p = "a.md" -> ".md" [] p = "b.TXT" -> ".TXT" [] p = "c.bin" -> ".bin"
Lower(s) == IF s = ".TXT" THEN ".txt" ELSE s
supported_extensions == {".txt", ".md", ".py", ".js", ".html", ".css", ".json", ".xml"}

\* the extension test left out: every regular file is a candidate
ListFilesNoFilter(d) == SelectSeq(EnumOrder, LAMBDA p : d[p] # Absent)

\* files = [f for f in files if f.is_file() and f.suffix.lower() in supported_extensions]
ListFiles(d) ==
    SelectSeq(EnumOrder, LAMBDA p : d[p] # Absent /\ Lower(Suffix(p)) \in supported_extensions)

\* hashlib.md5(...).hexdigest() of the bytes: different bytes, different digests
Md5(b) == CASE b = "" -> "d41d8cd9" [] b = "x" -> "md5-of-x" [] b = "y" -> "md5-of-y"
            [] b = "z" -> "md5-of-z"

\* _calculate_file_hash: the digest, or "" when the file cannot be opened or read
CalculateFileHash(d, p, readable) ==
    IF readable /\ d[p] # Absent THEN Md5(d[p]) ELSE ""

\* _read_file_content: the decoded text (the sample bytes are ASCII, which the
\* first encoding, utf-8, decodes to the same characters), or "" on any error
ReadFileContent(d, p, readable) ==
    IF readable /\ d[p] # Absent THEN d[p] ELSE ""

\* ---------------------------------------------------------------- chunks
\* The k-th chunk (0-based) of a text: a slice of it, named by the text and k.
ChunkText(text, k) == [text |-> text, part |-> k]

\* The chunk list of a text: its non-blank windows, left to right.
NumChunks(text) == CASE text = "x" -> 2 [] text \in {"y", "z"} -> 1 [] OTHER -> 0
ChunkList(text) == [k \in 1..NumChunks(text) |-> ChunkText(text, k - 1)]

\* ------------------------------------------------------------- embeddings
\* The provider: model.encode maps equal texts to equal vectors.  The table
\* has two directions, a vector between them and a zero vector.
Encode(c) ==
    CASE c.text = "x" /\ c.part = 0 -> <<1, 0>>
      [] c.text = "x" /\ c.part = 1 -> <<1, 1>>
      [] c.text = "y" /\ c.part = 0 -> <<0, 1>>
      [] OTHER -> <<0, 0>>

\* _generate_embeddings: one vector per chunk; any exception of the provider is
\* caught and [] is returned.  With no chunk the provider is not called.
GenerateEmbeddings(chunks, providerOk) ==
    IF providerOk \/ Len(chunks) = 0
    THEN [k \in 1..Len(chunks) |-> Encode(chunks[k])]
    ELSE <<>>

Min(a, b) == IF a < b THEN a ELSE b

\* ------------------------------------------------------------------ state
VARIABLES
    disk,            \* [Paths -> Contents \cup {Absent}]
    files,           \* committed rows of table files
    embeddings,      \* committed rows of table embeddings
    sqlite_sequence, \* committed AUTOINCREMENT counters of the two tables
    lock,            \* the connection that holds the write lock, or "none"
    txn,             \* per connection: its open write transaction
    run,             \* per engine: its index_directory call
    index_stats,     \* per engine: self.index_stats, its two counters
    results,         \* what the query that just returned gave its caller
    edits,           \* filesystem changes made so far
    split,           \* the _split_content call in progress
    engine,          \* per engine: self.model and the calls made on its life cycle
    embed            \* the _generate_embeddings call in progress

vars == <<disk, files, embeddings, sqlite_sequence, lock, txn, run, index_stats, results, edits, split, engine, embed>>

Engines == DOMAIN run

RECURSIVE Sum(_, _)
Sum(f, S) == IF S = {} THEN 0 ELSE LET x == CHOOSE y \in S : TRUE IN f[x] + Sum(f, S \ {x})

\* index_directory calls made so far
RunsMade == Sum([e \in Engines |-> run[e].runs], Engines)

NoTxn == [open |-> FALSE, files |-> {}, embeddings |-> {}, seq |-> [files |-> 0, embeddings |-> 0]]
NoResults == [op |-> "none"]
NoCall == [file_path |-> "", file_hash |-> "", chunks |-> <<>>, embeddings |-> <<>>, file_id |-> 0, k |-> 0]
NoReport == [returned |-> FALSE, indexed_files |-> 0, skipped_files |-> 0, errors |-> <<>>]

IdleRun ==
    [pc |-> "idle", files |-> <<>>, i |-> 1,
     indexed_files |-> 0, skipped_files |-> 0, errors |-> <<>>,
     call |-> NoCall, report |-> NoReport, runs |-> 0,
     \* history of the call in progress (not program state): the files
     \* _index_file was called on, those model.encode was called for, those
     \* whose bytes no longer had the stored hash, the bytes each had, the
     \* files on which a step of the attempt failed, and whether the store
     \* has just answered the latest attempt with the hash computed for the file;
     \* whether the stored hash was that hash, answered or not, and the steps
     \* the latest attempt has gone through, in order
     attempted |-> <<>>, encoded |-> {}, changed |-> {}, seen |-> [p \in Paths |-> Absent],
     failed |-> {}, same_hash |-> FALSE, stored_equal |-> FALSE, steps |-> <<>>]

NoText == [len |-> 0, periods |-> {}, newlines |-> {}, spaces |-> {}]
NoSplit == [pc |-> "idle", content |-> NoText, start |-> 0, chunks |-> <<>>,
            windows |-> <<>>, result |-> <<>>]

NoStats == [called |-> FALSE, model_loaded |-> FALSE]

\* the engine as __init__ leaves it: self.model is None.  available is the
\* module's SENTENCE_TRANSFORMERS_AVAILABLE, set once at import.  The other
\* fields are not program state: what the latest initialize() returned,
\* whether cleanup() has been called since, and what the latest get_stats()
\* reported.
Constructed(available) ==
    [model |-> FALSE, available |-> available, last_initialize |-> "none",
     cleanup_since |-> FALSE, stats |-> NoStats]

\* the engine after initialize() has returned True
Initialized ==
    [model |-> TRUE, available |-> TRUE, last_initialize |-> "True",
     cleanup_since |-> FALSE, stats |-> NoStats]

NoEmbed == [pc |-> "idle", chunks |-> <<>>, batch_size |-> 0, i |-> 0, calls |-> <<>>,
            embeddings |-> <<>>, result |-> <<>>, failed |-> FALSE]

\* the store and the engines' calls before anything is indexed
InitStore(E, D) ==
    /\ disk \in D
    /\ files = {}
    /\ embeddings = {}
    /\ sqlite_sequence = [files |-> 0, embeddings |-> 0]
    /\ lock = "none"
    /\ txn = [e \in E |-> NoTxn]
    /\ run = [e \in E |-> IdleRun]
    /\ index_stats = [e \in E |-> [total_files |-> 0, total_embeddings |-> 0]]
    /\ results = NoResults
    /\ edits = 0
    /\ split = NoSplit
    /\ embed = NoEmbed

\* engines that have been initialized, over an empty store
InitFor(E, D) ==
    /\ InitStore(E, D)
    /\ engine = [e \in E |-> Initialized]

\* ------------------------------------------------------------- the store
\* SELECT file_hash FROM files WHERE file_path = ?  (fetchone)
StoredHashes(p) == {f.file_hash : f \in {g \in files : g.file_path = p}}

\* the comparison turned round: `result[0] != file_hash`
IsFileUnchangedInverted(p, file_hash, storeOk) ==
    storeOk /\ StoredHashes(p) # {} /\ file_hash \notin StoredHashes(p)

\* _is_file_unchanged: `result and result[0] == file_hash`; any sqlite error
\* is caught and answers False
IsFileUnchanged(p, file_hash, storeOk) ==
    storeOk /\ file_hash \in StoredHashes(p)

\* _load_stats: SELECT COUNT(*) FROM files, SELECT COUNT(*) FROM embeddings
LoadStats(F, E) == [total_files |-> Cardinality(F), total_embeddings |-> Cardinality(E)]

\* ----------------------------------------------------- index_directory
\* _index_file returned False: `skipped_files += 1`, next file
Skipped(r) ==
    [r EXCEPT !.skipped_files = @ + 1, !.i = @ + 1, !.pc = "loop", !.call = NoCall]

\* a failed attempt that ends the loop instead of going to the next file
FailedStopsLoop(r) ==
    [Skipped(r) EXCEPT !.failed = @ \cup {r.files[r.i]}, !.i = Len(r.files) + 1]

\* _index_file caught an exception (or _read_file_content did) and returned False
Failed(r) == [Skipped(r) EXCEPT !.failed = @ \cup {r.files[r.i]}]

\* _index_file returned True: `indexed_files += 1`, next file
Indexed(r) ==
    [r EXCEPT !.indexed_files = @ + 1, !.i = @ + 1, !.pc = "loop", !.call = NoCall]

\* index_directory up to its loop: the directory exists, the candidate files
\* are listed once, the counters start at 0.
RunStart(e) ==
    /\ run[e].pc = "idle"
    /\ RunsMade < MaxRuns
    /\ run' = [run EXCEPT ![e] = [IdleRun EXCEPT !.pc = "loop",
                                                 !.files = ListFiles(disk),
                                                 !.runs = run[e].runs + 1]]
    /\ results' = NoResults
    /\ UNCHANGED <<disk, files, embeddings, sqlite_sequence, lock, txn, index_stats, edits, split, engine, embed>>

\* One pass of the loop body up to the call of _save_file_embeddings:
\* _index_file hashes the file, asks the store whether the hash is the stored
\* one, reads the text, splits it and embeds the chunks.  Every exception is
\* caught by _index_file itself, which then returns False; splitRaises is
\* `self._split_content(content)` (line 269) raising instead of returning.
\* A failed model.encode is caught inside _generate_embeddings, which returns
\* [], and _index_file goes on to save; with self.model None every encode fails.
IndexFile(e) ==
    /\ run[e].pc = "loop"
    /\ run[e].i <= Len(run[e].files)
    /\ \E hashable, storeOk, readable, splitRaises \in BOOLEAN,
          providerOk \in {FALSE, engine[e].model} :
         LET r == run[e]
             p == r.files[r.i]
             file_hash == CalculateFileHash(disk, p, hashable)
             content == ReadFileContent(disk, p, readable)
             chunks == ChunkList(content)
             vectors == GenerateEmbeddings(chunks, providerOk)
             h == [r EXCEPT !.attempted = Append(@, p),
                            !.seen[p] = disk[p],
                            !.changed = IF /\ StoredHashes(p) # {}
                                           /\ CalculateFileHash(disk, p, TRUE) \notin StoredHashes(p)
                                        THEN @ \cup {p} ELSE @,
                            !.same_hash = storeOk /\ file_hash \in StoredHashes(p),
                            !.stored_equal = file_hash \in StoredHashes(p),
                            !.steps = <<"hash", "compare">>]
             read == [h EXCEPT !.steps = Append(@, "read")]
             split_ == [read EXCEPT !.steps = Append(@, "split")]
         IN  IF IsFileUnchanged(p, file_hash, storeOk)
             THEN run' = [run EXCEPT ![e] = Skipped(h)]
             ELSE IF content = ""
             THEN run' = [run EXCEPT ![e] = IF readable /\ disk[p] # Absent
                                            THEN Skipped(read) ELSE Failed(read)]
             ELSE IF splitRaises
             THEN run' = [run EXCEPT ![e] = Failed(split_)]
             ELSE run' = [run EXCEPT ![e] =
                            [split_ EXCEPT !.pc = "replace",
                                      !.steps = Append(@, "encode"),
                                      !.encoded = IF Len(chunks) > 0 THEN @ \cup {p} ELSE @,
                                      !.failed = IF Len(vectors) < Len(chunks) THEN @ \cup {p} ELSE @,
                                      !.call = [file_path |-> p, file_hash |-> file_hash,
                                                chunks |-> chunks, embeddings |-> vectors,
                                                file_id |-> 0, k |-> 1]]]
    /\ results' = NoResults
    /\ UNCHANGED <<disk, files, embeddings, sqlite_sequence, lock, txn, index_stats, edits, split, engine, embed>>

\* the id a plain INTEGER PRIMARY KEY gives after the newest row of the table
\* has been deleted: the largest id is given again
NextIdReused(seq, table) == IF seq[table] = 0 THEN 1 ELSE seq[table]

\* the id AUTOINCREMENT gives the next row of a table: one more than the
\* largest id the table ever held
NextId(seq, table) == seq[table] + 1

\* file_path TEXT UNIQUE NOT NULL: no row of the table has this path
UniquePath(rows, p) == \A f \in rows : f.file_path # p

\* an INSERT without the DELETE before it, into a table without UNIQUE
AppendFileRow(rows, row) == rows \cup {row}

\* DELETE FROM files WHERE file_path = ?; INSERT INTO files (...): the rows of
\* table files after the two statements.  The INSERT is refused, and raises,
\* when the path is still in the table.
ReplaceFileRow(rows, row) ==
    LET kept == {f \in rows : f.file_path # row.file_path}
    IN  IF UniquePath(kept, row.file_path) THEN kept \cup {row} ELSE kept

\* _save_file_embeddings, the statements on table files.  The first write of
\* a connection opens its transaction and takes the database's write lock;
\* until COMMIT the transaction works on its own copy of the tables.
\* n_chunks, text and by of the new row are not columns: they record how many
\* chunk rows this upsert is about to write, from which text, and which
\* engine's call writes it (by is kept on the chunk rows too).
SaveReplaceFile(e) ==
    /\ run[e].pc = "replace"
    /\ lock = "none"
    /\ LET c == run[e].call
           id == NextId(sqlite_sequence, "files")
           row == [id |-> id, file_path |-> c.file_path, file_hash |-> c.file_hash,
                   file_type |-> Lower(Suffix(c.file_path)),
                   n_chunks |-> Min(Len(c.chunks), Len(c.embeddings)),
                   text |-> run[e].seen[c.file_path], by |-> e]
       IN  /\ row \in ReplaceFileRow(files, row)
           /\ lock' = e
           /\ txn' = [txn EXCEPT ![e] =
                        [open |-> TRUE,
                         files |-> ReplaceFileRow(files, row),
                         embeddings |-> embeddings,
                         seq |-> [sqlite_sequence EXCEPT !.files = id]]]
           /\ run' = [run EXCEPT ![e].pc = "insert_chunks", ![e].call.file_id = id,
                                 ![e].same_hash = FALSE, ![e].stored_equal = FALSE,
                                 ![e].steps = <<>>]
    /\ results' = NoResults
    /\ UNCHANGED <<disk, files, embeddings, sqlite_sequence, index_stats, edits, split, engine, embed>>

\* an enumeration that counts from 1
ChunkIndexFromOne(k) == k

\* the i of `enumerate(zip(chunks, embeddings))` at the k-th pair, k from 1
ChunkIndex(k) == k - 1

\* the INSERT of a chunk row on a connection in autocommit mode: the rows
\* written so far are committed with it
SaveInsertChunkAutocommit(e) ==
    /\ run[e].pc = "insert_chunks"
    /\ LET c == run[e].call
           id == NextId(txn[e].seq, "embeddings")
           row == [id |-> id, file_id |-> c.file_id, chunk_index |-> ChunkIndex(c.k),
                   content |-> c.chunks[c.k], embedding |-> c.embeddings[c.k], by |-> e]
       IN  /\ c.k <= Min(Len(c.chunks), Len(c.embeddings))
           /\ txn' = [txn EXCEPT ![e].embeddings = @ \cup {row}, ![e].seq.embeddings = id]
           /\ files' = txn[e].files
           /\ embeddings' = txn[e].embeddings \cup {row}
           /\ sqlite_sequence' = [txn[e].seq EXCEPT !.embeddings = id]
           /\ run' = [run EXCEPT ![e].call.k = @ + 1]
    /\ results' = NoResults
    /\ UNCHANGED <<disk, lock, index_stats, edits, split, engine, embed>>

\* for i, (chunk, embedding) in enumerate(zip(chunks, embeddings)): INSERT INTO embeddings
SaveInsertChunk(e) ==
    /\ run[e].pc = "insert_chunks"
    /\ LET c == run[e].call
           id == NextId(txn[e].seq, "embeddings")
       IN  /\ c.k <= Min(Len(c.chunks), Len(c.embeddings))
           /\ txn' = [txn EXCEPT ![e].embeddings = @ \cup {[id |-> id,
                                                            file_id |-> c.file_id,
                                                            chunk_index |-> ChunkIndex(c.k),
                                                            content |-> c.chunks[c.k],
                                                            embedding |-> c.embeddings[c.k],
                                                            by |-> e]},
                                 ![e].seq.embeddings = id]
           /\ run' = [run EXCEPT ![e].call.k = @ + 1]
    /\ results' = NoResults
    /\ UNCHANGED <<disk, files, embeddings, sqlite_sequence, lock, index_stats, edits, split, engine, embed>>

\* conn.commit(): the transaction's tables become the committed tables, the
\* lock is released; _save_file_embeddings returns and _index_file returns True.
SaveCommit(e) ==
    /\ run[e].pc = "insert_chunks"
    /\ run[e].call.k > Min(Len(run[e].call.chunks), Len(run[e].call.embeddings))
    /\ files' = txn[e].files
    /\ embeddings' = txn[e].embeddings
    /\ sqlite_sequence' = txn[e].seq
    /\ lock' = "none"
    /\ txn' = [txn EXCEPT ![e] = NoTxn]
    /\ run' = [run EXCEPT ![e] = Indexed(run[e])]
    /\ results' = NoResults
    /\ UNCHANGED <<disk, index_stats, edits, split, engine, embed>>

\* A statement of _save_file_embeddings raises (the database stays locked by
\* another connection, the disk is full, stat() fails): the handler logs and
\* re-raises, the connection is dropped without commit, which rolls its
\* transaction back, and _index_file catches the exception and returns False.
SaveFail(e) ==
    /\ run[e].pc \in {"replace", "insert_chunks"}
    /\ lock' = IF lock = e THEN "none" ELSE lock
    /\ txn' = [txn EXCEPT ![e] = NoTxn]
    /\ run' = [run EXCEPT ![e] = [Failed(run[e]) EXCEPT !.same_hash = FALSE,
                                                         !.stored_equal = FALSE,
                                                         !.steps = <<>>]]
    /\ results' = NoResults
    /\ UNCHANGED <<disk, files, embeddings, sqlite_sequence, index_stats, edits, split, engine, embed>>

\* After the loop: self.index_stats["total_files"] += indexed_files and the
\* report {indexed_files, skipped_files, errors} is returned.
RunFinish(e) ==
    /\ run[e].pc = "loop"
    /\ run[e].i > Len(run[e].files)
    /\ index_stats' = [index_stats EXCEPT ![e].total_files = @ + run[e].indexed_files]
    /\ run' = [run EXCEPT ![e].pc = "idle",
                          ![e].same_hash = FALSE,
                          ![e].stored_equal = FALSE,
                          ![e].steps = <<>>,
                          ![e].report = [returned |-> TRUE,
                                         indexed_files |-> run[e].indexed_files,
                                         skipped_files |-> run[e].skipped_files,
                                         errors |-> run[e].errors]]
    /\ results' = NoResults
    /\ UNCHANGED <<disk, files, embeddings, sqlite_sequence, lock, txn, edits, split, engine, embed>>

\* The environment rewrites, creates or removes a file; a report returned
\* before is no longer about the directory as it is.
EditFile(p, c) ==
    /\ edits < MaxEdits
    /\ c # disk[p]
    /\ disk' = [disk EXCEPT ![p] = c]
    /\ edits' = edits + 1
    /\ run' = [e \in Engines |-> IF run[e].pc = "idle"
                                  THEN [IdleRun EXCEPT !.runs = run[e].runs]
                                  ELSE run[e]]
    /\ results' = NoResults
    /\ UNCHANGED <<files, embeddings, sqlite_sequence, lock, txn, index_stats, split, engine, embed>>

\* ------------------------------------------------------------------ queries
\* vectors model.encode gives a query
QueryVectors == {<<1, 0>>, <<1, 1>>, <<0, 0>>}
\* values of `limit`
Limits == {0, 1, 10}
\* values of `min_similarity`, in tenths (3 is the default 0.3)
MinSimilarities == {0, 3, 8}

Dot(u, v) == u[1] * v[1] + u[2] * v[2]

\* np.dot(a, b) / (np.linalg.norm(a) * np.linalg.norm(b)), kept exact as the
\* dot product and the squared product of the norms; 0/0 is nan
Similarity(u, v) ==
    [dot |-> Dot(u, v), nn |-> Dot(u, u) * Dot(v, v), nan |-> Dot(u, u) * Dot(v, v) = 0]

\* x * |x|: keeps the order of x
SignedSquare(x) == IF x < 0 THEN 0 - x * x ELSE x * x

\* a >= b on two similarities; False when one of them is nan
ScoreGE(a, b) ==
    /\ ~a.nan
    /\ ~b.nan
    /\ SignedSquare(a.dot) * b.nn >= SignedSquare(b.dot) * a.nn

\* similarity >= min_similarity (min in tenths); False for nan
MeetsMin(a, min) ==
    /\ ~a.nan
    /\ 100 * SignedSquare(a.dot) >= SignedSquare(min) * a.nn

\* The rows of `FROM files f JOIN embeddings e ON f.id = e.file_id` among the
\* embeddings rows E, as the cursor yields them: the statement has no ORDER
\* BY; SQLite walks the rows by ascending id, or by descending id under
\* PRAGMA reverse_unordered_selects.
JoinedRows(E, reversed) ==
    LET joined == {e \in E : \E f \in files : f.id = e.file_id}
        ids == SelectSeq([i \in 1..sqlite_sequence.embeddings |-> i],
                         LAMBDA i : \E e \in joined : e.id = i)
        n == Len(ids)
        row(i) == LET e == CHOOSE x \in joined : x.id = i
                      f == CHOOSE x \in files : x.id = e.file_id
                  IN  [file_path |-> f.file_path, file_type |-> f.file_type,
                       chunk_index |-> e.chunk_index, content |-> e.content,
                       embedding |-> e.embedding]
    IN  [k \in 1..n |-> row(ids[IF reversed THEN n + 1 - k ELSE k])]

\* SearchResult(file_path, similarity_score, content_snippet, metadata.chunk_index);
\* the snippet is the first 200 characters of the chunk, here the chunk it is cut from
Result(row, score) ==
    [file_path |-> row.file_path, similarity_score |-> score,
     content_snippet |-> row.content, chunk_index |-> row.chunk_index]

\* results.sort(key=lambda x: x.similarity_score, reverse=True): a stable
\* sort, so results of equal score keep the order they were appended in
InsertByScore(sorted, r) ==
    LET before == Cardinality({i \in 1..Len(sorted) :
                                 ScoreGE(sorted[i].similarity_score, r.similarity_score)})
    IN  SubSeq(sorted, 1, before) \o <<r>> \o SubSeq(sorted, before + 1, Len(sorted))

RECURSIVE SortByScore(_)
SortByScore(rs) ==
    IF Len(rs) = 0 THEN <<>>
    ELSE InsertByScore(SortByScore(SubSeq(rs, 1, Len(rs) - 1)), rs[Len(rs)])

\* results[:limit], limit >= 0
Truncate(rs, limit) == SubSeq(rs, 1, Min(limit, Len(rs)))

\* the filter left out: every row is kept
KeepRowNoFilter(score, min) == TRUE

\* the rows search keeps: `if similarity >= min_similarity`
KeepRow(score, min) == MeetsMin(score, min)

\* the body of search once the query is encoded and the rows are fetched
SearchList(q, limit, min, rows) ==
    LET scored == [k \in 1..Len(rows) |-> Result(rows[k], Similarity(q, rows[k].embedding))]
        kept == SelectSeq(scored, LAMBDA r : KeepRow(r.similarity_score, min))
    IN  Truncate(SortByScore(kept), limit)

\* an `except` that logs and raises again
SearchOutcomeReraise(ok, list) == [raised |-> ~ok, list |-> IF ok THEN list ELSE <<>>]

\* What the caller of search gets: the list the body computed, or, when the
\* body raised, `except Exception as e: logger.error(...); return []`.
SearchOutcome(ok, list) == [raised |-> FALSE, list |-> IF ok THEN list ELSE <<>>]

\* a search that refreshes the engine's counters from the rows it has read
SearchCounting(q, limit, min) ==
    /\ results = NoResults
    /\ \E modelOk, storeOk, reversed \in BOOLEAN :
         LET ok == modelOk /\ storeOk
             out == SearchOutcome(ok, SearchList(q, limit, min, JoinedRows(embeddings, reversed)))
         IN  results' = [op |-> "search", q |-> q, limit |-> limit, min_similarity |-> min,
                         failed |-> ~ok, store_failed |-> modelOk /\ ~storeOk,
                         raised |-> out.raised, list |-> out.list]
    /\ index_stats' = [e \in Engines |-> LoadStats(files, embeddings)]
    /\ UNCHANGED <<disk, files, embeddings, sqlite_sequence, lock, txn, run, edits, split, engine, embed>>

\* search(query, limit, min_similarity).  The body raises when the model is
\* not loaded (model.encode, the first statement) or when the store cannot be
\* opened or read or a stored vector cannot be unpickled (storeOk false).  A
\* query is issued once the previous answer has been taken.  failed and
\* store_failed record what happened inside; the caller gets raised and list.
Search(q, limit, min) ==
    /\ results = NoResults
    /\ \E modelOk, storeOk, reversed \in BOOLEAN :
         LET ok == modelOk /\ storeOk
             out == SearchOutcome(ok, SearchList(q, limit, min, JoinedRows(embeddings, reversed)))
         IN  results' = [op |-> "search", q |-> q, limit |-> limit, min_similarity |-> min,
                         failed |-> ~ok, store_failed |-> modelOk /\ ~storeOk,
                         raised |-> out.raised, list |-> out.list]
    /\ UNCHANGED <<disk, files, embeddings, sqlite_sequence, lock, txn, run, index_stats, edits, split, engine, embed>>

\* the rows of one path / of the other paths among joined rows, in their order
AnchorRows(rows, path) == SelectSeq(rows, LAMBDA r : r.file_path = path)

\* the exclusion left out: the path's own rows are scored too
OtherRowsAll(rows, path) == rows

\* ... WHERE f.file_path != ?
OtherRows(rows, path) == SelectSeq(rows, LAMBDA r : r.file_path # path)

\* the orders of a list
Orders(rs) ==
    {[k \in 1..Len(rs) |-> rs[f[k]]] :
        f \in {g \in [1..Len(rs) -> 1..Len(rs)] : \A i, j \in 1..Len(rs) : g[i] = g[j] => i = j}}

\* results.sort(key=lambda x: x.similarity_score, reverse=True) in
\* get_similar_files, where nothing keeps nan out of the list: a comparison
\* with nan is False both ways, and what order the interpreter's sort leaves
\* then is not fixed by the language; any order
SortOutcomes(rs) ==
    IF \E k \in 1..Len(rs) : rs[k].similarity_score.nan
    THEN Orders(rs)
    ELSE {SortByScore(rs)}

\* get_similar_files(file_path, limit).  The anchor is the vector of the
\* first row the store yields for the path (LIMIT 1, no ORDER BY); no row, no
\* result.  Every chunk of the other paths is scored against it and kept.
\* Any exception is caught and [] is returned.
GetSimilarFiles(path, limit) ==
    /\ results = NoResults
    /\ \E ok, reversed \in BOOLEAN :
         LET rows == JoinedRows(embeddings, reversed)
             own == AnchorRows(rows, path)
             other == OtherRows(rows, path)
             scored == [k \in 1..Len(other) |->
                          Result(other[k], Similarity(own[1].embedding, other[k].embedding))]
         IN  IF ~ok \/ Len(own) = 0
             THEN results' = [op |-> "similar", file_path |-> path, limit |-> limit,
                              failed |-> ~ok, raised |-> FALSE, anchor_chunk |-> -1,
                              list |-> <<>>]
             ELSE \E sorted \in SortOutcomes(scored) :
                    results' = [op |-> "similar", file_path |-> path, limit |-> limit,
                                failed |-> FALSE, raised |-> FALSE,
                                anchor_chunk |-> own[1].chunk_index,
                                list |-> Truncate(sorted, limit)]
    /\ UNCHANGED <<disk, files, embeddings, sqlite_sequence, lock, txn, run, index_stats, edits, split, engine, embed>>

\* ------------------------------------------------------- _split_content
\* A text is its length and the positions (from 0) of its '.', of its '\n'
\* and of its other whitespace; every other character is a letter.  A chunk
\* is the stretch [from, to) of the text it is a copy of.
chunk_size == 1000
overlap_size == 200

SampleTexts ==
    {[len |-> 0, periods |-> {}, newlines |-> {}, spaces |-> {}],
     [len |-> 3, periods |-> {}, newlines |-> {}, spaces |-> {}],
     [len |-> 5, periods |-> {}, newlines |-> {}, spaces |-> {0, 4}],
     [len |-> 2, periods |-> {}, newlines |-> {}, spaces |-> {0, 1}],
     [len |-> 300, periods |-> {150}, newlines |-> {299}, spaces |-> {}],
     [len |-> 1000, periods |-> {}, newlines |-> {}, spaces |-> {}],
     [len |-> 1500, periods |-> {}, newlines |-> {}, spaces |-> {}],
     [len |-> 1500, periods |-> {700}, newlines |-> {400}, spaces |-> {701}],
     [len |-> 2500, periods |-> {1400}, newlines |-> {}, spaces |-> {1000, 1001}]}

Max(a, b) == IF a > b THEN a ELSE b

\* content[start:end], end >= 0: a negative start counts from the end of the
\* text and is clamped to 0
Slice(t, start, end) ==
    LET from == IF start < 0 THEN Max(t.len + start, 0) ELSE Min(start, t.len)
        to == Min(end, t.len)
    IN  [from |-> from, to |-> Max(from, to)]

Whitespace(t) == t.spaces \cup t.newlines

RECURSIVE SkipLeft(_, _, _)
SkipLeft(t, i, to) == IF i < to /\ i \in Whitespace(t) THEN SkipLeft(t, i + 1, to) ELSE i

RECURSIVE SkipRight(_, _, _)
SkipRight(t, from, j) == IF from < j /\ (j - 1) \in Whitespace(t) THEN SkipRight(t, from, j - 1) ELSE j

\* chunk.strip()
Strip(t, c) ==
    LET from == SkipLeft(t, c.from, c.to)
    IN  [from |-> from, to |-> SkipRight(t, from, c.to)]

\* chunk.rfind(ch): the index in the chunk of the last of the positions P, or -1
RFind(P, c) ==
    LET in == {i \in P : c.from <= i /\ i < c.to}
    IN  IF in = {} THEN -1 ELSE (CHOOSE i \in in : \A j \in in : j <= i) - c.from

\* a window that runs to the end of the text
WindowEndWhole(start, n) == n

\* end = min(start + chunk_size, len(content))
WindowEnd(start, n) == Min(start + chunk_size, n)

\* [chunk for chunk in chunks if chunk.strip()]
ReturnFilter(t, chunks) == SelectSeq(chunks, LAMBDA c : Strip(t, c).from < Strip(t, c).to)

\* _split_content is called on a text
SplitCall(t) ==
    /\ split.pc = "idle"
    /\ split' = [NoSplit EXCEPT !.pc = "loop", !.content = t]
    /\ UNCHANGED <<disk, files, embeddings, sqlite_sequence, lock, txn, run, index_stats, results, edits, engine, embed>>

\* One pass of `while start < len(content)`.  chunks.append raises
\* MemoryError when the list cannot grow.
SplitStep ==
    /\ split.pc = "loop"
    /\ split.start < split.content.len
    /\ LET t == split.content
           start == split.start
           end0 == WindowEnd(start, t.len)
           chunk0 == Slice(t, start, end0)
           split_point == Max(RFind(t.periods, chunk0), RFind(t.newlines, chunk0))
           cut == end0 < t.len /\ split_point > start + chunk_size \div 2
           chunk == IF cut THEN [chunk0 EXCEPT !.to = chunk0.from + split_point + 1] ELSE chunk0
           end == IF cut THEN start + split_point + 1 ELSE end0
       IN  IF Len(split.chunks) >= MaxListLen
           THEN split' = [split EXCEPT !.pc = "raised"]
           ELSE split' = [split EXCEPT !.chunks = Append(@, Strip(t, chunk)),
                                       !.windows = Append(@, chunk),
                                       !.start = end - overlap_size]
    /\ UNCHANGED <<disk, files, embeddings, sqlite_sequence, lock, txn, run, index_stats, results, edits, engine, embed>>

\* the loop is left: return [chunk for chunk in chunks if chunk.strip()]
SplitReturn ==
    /\ split.pc = "loop"
    /\ split.start >= split.content.len
    /\ split' = [split EXCEPT !.pc = "returned",
                              !.result = ReturnFilter(split.content, split.chunks)]
    /\ UNCHANGED <<disk, files, embeddings, sqlite_sequence, lock, txn, run, index_stats, results, edits, engine, embed>>

\* the caller has the list, or the exception, and may call again
SplitDone ==
    /\ split.pc \in {"returned", "raised"}
    /\ split' = NoSplit
    /\ UNCHANGED <<disk, files, embeddings, sqlite_sequence, lock, txn, run, index_stats, results, edits, engine, embed>>

\* ------------------------------------------------- _generate_embeddings
\* chunks of the sample texts
SampleChunks == {[text |-> "x", part |-> 0], [text |-> "x", part |-> 1], [text |-> "y", part |-> 0]}

\* values of self.config.batch_size; with 0, range(0, len(chunks), 0) raises
BatchSizes == 0..MaxBatch

\* a batch that takes one chunk more than batch_size
BatchOneMore(chunks, i, batch_size) ==
    SubSeq(chunks, i + 1, Min(i + batch_size + 1, Len(chunks)))

\* chunks[i:i + batch_size], i counted from 0
Batch(chunks, i, batch_size) ==
    SubSeq(chunks, i + 1, Min(i + batch_size, Len(chunks)))

\* self.model.encode(batch): one vector per text of the batch, in order
EncodeBatch(batch) == [k \in 1..Len(batch) |-> Encode(batch[k])]

\* the lists extended one after another
RECURSIVE Flatten(_)
Flatten(ss) == IF ss = <<>> THEN <<>> ELSE Head(ss) \o Flatten(Tail(ss))

\* _generate_embeddings(chunks) is called: embeddings = [], batch_size is
\* read from the configuration and range() is built
EmbedCall(chunks, batch_size) ==
    /\ embed.pc = "idle"
    /\ embed' = IF batch_size = 0
                THEN [NoEmbed EXCEPT !.pc = "returned", !.chunks = chunks, !.failed = TRUE]
                ELSE [NoEmbed EXCEPT !.pc = "loop", !.chunks = chunks, !.batch_size = batch_size]
    /\ UNCHANGED <<disk, files, embeddings, sqlite_sequence, lock, txn, run, index_stats, results, edits, split, engine>>

\* one pass of the loop: the next batch is sliced and given to model.encode,
\* whose vectors extend the list; when encode raises, the handler returns []
EmbedStep ==
    /\ embed.pc = "loop"
    /\ embed.i < Len(embed.chunks)
    /\ \E ok \in BOOLEAN :
         LET batch == Batch(embed.chunks, embed.i, embed.batch_size)
         IN  embed' = IF ok
                      THEN [embed EXCEPT !.calls = Append(@, batch),
                                         !.embeddings = @ \o EncodeBatch(batch),
                                         !.i = @ + embed.batch_size]
                      ELSE [embed EXCEPT !.calls = Append(@, batch),
                                         !.pc = "returned", !.failed = TRUE, !.result = <<>>]
    /\ UNCHANGED <<disk, files, embeddings, sqlite_sequence, lock, txn, run, index_stats, results, edits, split, engine>>

\* the range is exhausted: `return embeddings`
EmbedReturn ==
    /\ embed.pc = "loop"
    /\ embed.i >= Len(embed.chunks)
    /\ embed' = [embed EXCEPT !.pc = "returned", !.result = embed.embeddings]
    /\ UNCHANGED <<disk, files, embeddings, sqlite_sequence, lock, txn, run, index_stats, results, edits, split, engine>>

\* the caller has the list and may call again
EmbedDone ==
    /\ embed.pc = "returned"
    /\ embed' = NoEmbed
    /\ UNCHANGED <<disk, files, embeddings, sqlite_sequence, lock, txn, run, index_stats, results, edits, split, engine>>

\* ------------------------------------- initialize, get_stats, cleanup
\* initialize(): returns False at once when the import of the provider
\* failed; otherwise loads the model and, once self.model is assigned, calls
\* _load_stats, which catches its own exceptions and may have stored only the
\* counters it had read (counted of the two).  An exception of the load is
\* caught: False is returned and self.model is what it was.
Initialize(e) ==
    /\ run[e].pc = "idle"
    /\ \E loads \in BOOLEAN, counted \in 0..2 :
         LET ok == engine[e].available /\ loads
             stats == LoadStats(files, embeddings)
         IN  /\ ok \/ counted = 0
             /\ engine' = [engine EXCEPT ![e].model = IF ok THEN TRUE ELSE @,
                                         ![e].last_initialize = IF ok THEN "True" ELSE "False",
                                         ![e].cleanup_since = FALSE,
                                         ![e].stats = NoStats]
             /\ index_stats' = [index_stats EXCEPT
                                  ![e].total_files = IF counted >= 1 THEN stats.total_files ELSE @,
                                  ![e].total_embeddings = IF counted = 2 THEN stats.total_embeddings ELSE @]
    /\ results' = NoResults
    /\ UNCHANGED <<disk, files, embeddings, sqlite_sequence, lock, txn, run, edits, split, embed>>

\* cleanup(): self.cache.clear(); self.model = None
Cleanup(e) ==
    /\ run[e].pc = "idle"
    /\ engine' = [engine EXCEPT ![e].model = FALSE, ![e].cleanup_since = TRUE, ![e].stats = NoStats]
    /\ results' = NoResults
    /\ UNCHANGED <<disk, files, embeddings, sqlite_sequence, lock, txn, run, index_stats, edits, split, embed>>

\* get_stats(): "model_loaded": self.model is not None
GetStats(e) ==
    /\ engine[e].stats = NoStats
    /\ engine' = [engine EXCEPT ![e].stats = [called |-> TRUE, model_loaded |-> engine[e].model]]
    /\ UNCHANGED <<disk, files, embeddings, sqlite_sequence, lock, txn, run, index_stats, results, edits, split, embed>>

\* no index_directory call is in progress
Idle == \A e \in Engines : run[e].pc = "idle"

\* One engine over a directory of three files of the same two-chunk text;
\* files change and queries are made between the engine's calls.
Init == InitFor({"e1"}, {[p \in Paths |-> "x"]})

Next ==
    \/ \E e \in Engines : RunStart(e)
    \/ \E e \in Engines : IndexFile(e)
    \/ \E e \in Engines : SaveReplaceFile(e)
    \/ \E e \in Engines : SaveInsertChunk(e)
    \/ \E e \in Engines : SaveCommit(e)
    \/ \E e \in Engines : SaveFail(e)
    \/ \E e \in Engines : RunFinish(e)
    \/ \E p \in Editable, c \in Contents \cup {Absent} : Idle /\ EditFile(p, c)
    \/ Idle /\ Search(<<1, 0>>, 10, 3)

Spec == Init /\ [][Next]_vars

\* One engine over a directory that does not change, queried with every
\* limit and min_similarity.
InitQuery ==
    InitFor({"e1"}, {d \in [Paths -> {"x", "y"}] : d["c.bin"] = "x"})

NextQuery ==
    \/ \E e \in Engines : RunStart(e)
    \/ \E e \in Engines : IndexFile(e)
    \/ \E e \in Engines : SaveReplaceFile(e)
    \/ \E e \in Engines : SaveInsertChunk(e)
    \/ \E e \in Engines : SaveCommit(e)
    \/ \E e \in Engines : SaveFail(e)
    \/ \E e \in Engines : RunFinish(e)
    \/ \E q \in QueryVectors, limit \in Limits, min \in MinSimilarities :
          Idle /\ Search(q, limit, min)

SpecQuery == InitQuery /\ [][NextQuery]_vars

\* Two engines, each a process with its own connections to the same database
\* file, index a directory of one candidate file while the file is rewritten
\* and while readers query: every interleaving of their steps.
InitConc ==
    InitFor({"e1", "e2"}, {[p \in Paths |-> IF p = "a.md" THEN "x" ELSE IF p = "c.bin" THEN "y" ELSE Absent]})

NextConc ==
    \/ \E e \in Engines : RunStart(e)
    \/ \E e \in Engines : IndexFile(e)
    \/ \E e \in Engines : SaveReplaceFile(e)
    \/ \E e \in Engines : SaveInsertChunk(e)
    \/ \E e \in Engines : SaveCommit(e)
    \/ \E e \in Engines : SaveFail(e)
    \/ \E e \in Engines : RunFinish(e)
    \/ \E c \in {"x", "y"} : EditFile("a.md", c)
    \/ Search(<<1, 1>>, 10, 0)

SpecConc == InitConc /\ [][NextConc]_vars

\* One engine over a directory that does not change and may hold a text that
\* the provider maps to the zero vector; queried for similar files, and
\* searched with the zero vector and with a vector that is not zero.
InitSimilar ==
    InitFor({"e1"}, {d \in [Paths -> {"x", "y", "z"}] :
                        d["a.md"] \in {"x", "z"} /\ d["c.bin"] = "x"})

NextSimilar ==
    \/ \E e \in Engines : RunStart(e)
    \/ \E e \in Engines : IndexFile(e)
    \/ \E e \in Engines : SaveReplaceFile(e)
    \/ \E e \in Engines : SaveInsertChunk(e)
    \/ \E e \in Engines : SaveCommit(e)
    \/ \E e \in Engines : SaveFail(e)
    \/ \E e \in Engines : RunFinish(e)
    \/ \E path \in Paths, limit \in Limits : Idle /\ GetSimilarFiles(path, limit)
    \/ \E q \in {<<0, 0>>, <<1, 1>>} : Idle /\ Search(q, 10, 0)

SpecSimilar == InitSimilar /\ [][NextSimilar]_vars

\* _split_content alone, called on one sample text after another.
InitSplit == InitFor({"e1"}, {[p \in Paths |-> Absent]})

NextSplit ==
    \/ \E t \in SampleTexts : SplitCall(t)
    \/ SplitStep
    \/ SplitReturn
    \/ SplitDone

SpecSplit == InitSplit /\ [][NextSplit]_vars

\* _generate_embeddings alone, called on one chunk list after another with
\* one batch size after another.
InitEmbed == InitFor({"e1"}, {[p \in Paths |-> Absent]})

NextEmbed ==
    \/ \E n \in 0..MaxChunks : \E chunks \in [1..n -> SampleChunks] :
          \E batch_size \in BatchSizes : EmbedCall(chunks, batch_size)
    \/ EmbedStep
    \/ EmbedReturn
    \/ EmbedDone

SpecEmbed == InitEmbed /\ [][NextEmbed]_vars

\* One engine from its construction on: initialize, cleanup and get_stats
\* are called between its index_directory calls over a directory of one file.
InitLife ==
    /\ InitStore({"e1"}, {[p \in Paths |-> IF p = "a.md" THEN "x" ELSE Absent]})
    /\ engine \in [{"e1"} -> {Constructed(a) : a \in BOOLEAN}]

NextLife ==
    \/ \E e \in Engines : Initialize(e)
    \/ \E e \in Engines : Cleanup(e)
    \/ \E e \in Engines : GetStats(e)
    \/ \E e \in Engines : RunStart(e)
    \/ \E e \in Engines : IndexFile(e)
    \/ \E e \in Engines : SaveReplaceFile(e)
    \/ \E e \in Engines : SaveInsertChunk(e)
    \/ \E e \in Engines : SaveCommit(e)
    \/ \E e \in Engines : SaveFail(e)
    \/ \E e \in Engines : RunFinish(e)

SpecLife == InitLife /\ [][NextLife]_vars

\* =================================================================== claims

C6_FailuresInErrors ==
    \A e \in Engines :
        run[e].report.returned =>
            Len(run[e].report.errors) >= Cardinality(run[e].failed)

\* C7: an index_directory call attempts the candidate files one by one in the
\* order of the enumeration, each once, and goes on after a failure: the
\* files attempted so far are a prefix of the candidate list, and the whole
\* list once the report is returned.
C7_EachCandidateOnceInOrder ==
    \A e \in Engines :
        LET r == run[e] IN
        /\ r.pc = "loop" => r.attempted = SubSeq(r.files, 1, r.i - 1)
        /\ r.pc \in {"replace", "insert_chunks"} => r.attempted = SubSeq(r.files, 1, r.i)
        /\ r.pc # "idle" => r.files = ListFiles(disk)
        /\ r.report.returned => r.attempted = ListFiles(disk)

\* a call returned after the attempt on its first file failed and the attempt
\* on its second file stored the file
C7_Witness ==
    \E e \in Engines :
        /\ run[e].report.returned
        /\ run[e].attempted = <<"b.TXT", "a.md">>
        /\ run[e].failed = {"b.TXT"}
        /\ StoredHashes("b.TXT") = {}
        /\ StoredHashes("a.md") # {}

C4_OneFileRecordPerPath ==
    /\ \A f, g \in files : f.file_path = g.file_path => f = g
    /\ \A e \in Engines : \A f, g \in txn[e].files : f.file_path = g.file_path => f = g

\* two engines have each committed an upsert of the same path
C4_Witness ==
    /\ \A e \in Engines : run[e].indexed_files = 1
    /\ \E f \in files : f.id = 2
    /\ Cardinality(files) = 1

\* C9: the list search returns is in non-increasing order of score and every
\* score in it is at least min_similarity.
C9_SortedAndAboveMin ==
    results.op = "search" =>
        \A i \in 1..Len(results.list) :
            /\ MeetsMin(results.list[i].similarity_score, results.min_similarity)
            /\ \A j \in (i + 1)..Len(results.list) :
                  ScoreGE(results.list[i].similarity_score, results.list[j].similarity_score)

\* a search with the default limit returned results of decreasing score and
\* left out a stored chunk that scored under min_similarity
C9_Witness ==
    /\ results.op = "search"
    /\ results.limit = 10
    /\ results.min_similarity = 3
    /\ Len(results.list) >= 2
    /\ ~ScoreGE(results.list[2].similarity_score, results.list[1].similarity_score)
    /\ Len(results.list) < Len(JoinedRows(embeddings, FALSE))

C18_StoreFailureReported ==
    /\ []((results.op = "search" /\ results.store_failed) => results.raised)
    /\ [][\A e \in Engines :
             (/\ run[e].pc \in {"replace", "insert_chunks"}
              /\ run'[e].pc = "loop"
              /\ run'[e].indexed_files = run[e].indexed_files) =>
                 Len(run'[e].errors) = Len(run[e].errors) + 1]_vars

\* C19: whatever the query, the store and the engine, search hands its caller
\* a list and raises nothing; the list is empty when its body failed.
C19_SearchNeverRaises ==
    results.op = "search" =>
        /\ ~results.raised
        /\ results.list \in Seq({results.list[k] : k \in 1..Len(results.list)})
        /\ results.failed => results.list = <<>>

\* a search over a store with chunks returned although the store could not be read
C19_Witness ==
    /\ results.op = "search"
    /\ results.store_failed
    /\ results.list = <<>>
    /\ \E c \in embeddings : \E f \in files : f.id = c.file_id

C12_SimilarExcludesSelfNoFloor ==
    results.op = "similar" =>
        LET rows == JoinedRows(embeddings, FALSE)
            own == AnchorRows(rows, results.file_path)
            other == SelectSeq(rows, LAMBDA r : r.file_path # results.file_path)
        IN  /\ Len(own) = 0 => results.list = <<>>
            /\ Len(results.list) <= results.limit
            /\ \A k \in 1..Len(results.list) :
                  /\ results.list[k].file_path # results.file_path
                  /\ \E j \in 1..Len(other) :
                        /\ other[j].file_path = results.list[k].file_path
                        /\ other[j].chunk_index = results.list[k].chunk_index
            /\ (~results.failed /\ Len(own) > 0) =>
                  Len(results.list) = Min(results.limit, Len(other))

\* get_similar_files returned both chunks of another file, the second with
\* score 0 against the anchor
C12_Witness ==
    /\ results.op = "similar"
    /\ results.limit = 10
    /\ Len(results.list) = 2
    /\ results.list[2].similarity_score.dot = 0
    /\ ~results.list[2].similarity_score.nan
    /\ AnchorRows(JoinedRows(embeddings, FALSE), results.file_path) # <<>>

C15_ShortTextOneChunk ==
    LET t == split.content
        whole == Strip(t, [from |-> 0, to |-> t.len])
    IN  (/\ split.pc \in {"returned", "raised"}
         /\ t.len < chunk_size
         /\ whole.from < whole.to) =>
            /\ split.pc = "returned"
            /\ split.result = <<whole>>

\* C16: every chunk _split_content puts in its list is at most chunk_size
\* long, the chunks its return statement keeps are not empty and start and
\* end with a character that is not whitespace, and what it returns is the
\* chunks kept.
C16_ChunkSizeAndNonBlank ==
    LET t == split.content
        kept == ReturnFilter(t, split.chunks)
    IN  /\ \A k \in 1..Len(split.chunks) :
              split.chunks[k].to - split.chunks[k].from <= chunk_size
        /\ \A k \in 1..Len(kept) :
              /\ kept[k].to - kept[k].from >= 1
              /\ kept[k].from \notin Whitespace(t)
              /\ (kept[k].to - 1) \notin Whitespace(t)
        /\ split.pc = "returned" => split.result = kept

\* the list holds a chunk cut after a '.' and a chunk of 999 characters
C16_Witness ==
    /\ split.pc = "loop"
    /\ \E j, k \in 1..Len(split.chunks) :
          /\ split.chunks[j] = [from |-> 0, to |-> 701]
          /\ split.chunks[k].to - split.chunks[k].from = 999
    /\ Len(ReturnFilter(split.content, split.chunks)) >= 2

\* C17: the windows _split_content takes start at 0, each later one starts
\* overlap_size before the end of the one before it, the window that reaches
\* the end of the text is the last one, and when the call is over every
\* position of the text is in a window.
C17_WindowsCover ==
    LET w == split.windows
        t == split.content
    IN  /\ Len(w) >= 1 => w[1].from = 0
        /\ \A k \in 2..Len(w) : w[k].from = w[k - 1].to - overlap_size
        /\ \A k \in 1..(Len(w) - 1) : w[k].to < t.len
        /\ (split.pc \in {"returned", "raised"} /\ t.len > 0) =>
              /\ Len(w) >= 1
              /\ w[Len(w)].to = t.len
              /\ \A i \in 0..(t.len - 1) : \E k \in 1..Len(w) : w[k].from <= i /\ i < w[k].to

\* C22: the loop of _split_content ends with a list returned: every pass
\* moves the window start forward, and the call does not end in an exception.
C22_SplitTerminates ==
    /\ [](split.pc # "raised")
    /\ [][(split.pc = "loop" /\ split'.pc = "loop" /\ split'.windows # split.windows) =>
             split'.start > split.start]_vars

\* C23: a window that stops short of the end of the text ends just after its
\* last '.' or line break when that lies past the window's midpoint, and is
\* the full chunk_size window otherwise; the next window starts overlap_size
\* before that end.
C23_BreakPastMidpoint ==
    LET w == split.windows
        t == split.content
    IN  \A k \in 1..Len(w) :
            LET full == [from |-> w[k].from, to |-> Min(w[k].from + chunk_size, t.len)]
                last == Max(RFind(t.periods, full), RFind(t.newlines, full))
            IN  full.to < t.len =>
                    /\ w[k].to = IF last > chunk_size \div 2 THEN w[k].from + last + 1 ELSE full.to
                    /\ k < Len(w) => w[k + 1].from = w[k].to - overlap_size

C29_QueriesReadOnly ==
    [][(results.op = "none" /\ results'.op \in {"search", "similar"}) =>
          /\ files' = files
          /\ embeddings' = embeddings
          /\ sqlite_sequence' = sqlite_sequence
          /\ index_stats' = index_stats
          /\ txn' = txn
          /\ lock' = lock]_vars

\* get_similar_files returned a result from a store of two indexed files
C29_Witness ==
    /\ results.op = "similar"
    /\ results.limit = 1
    /\ Len(results.list) = 1
    /\ \E e \in Engines : index_stats[e].total_files = 2
    /\ Cardinality(files) = 2

\* C30: the counters of the report add up to the number of regular files of
\* the directory with an allowed extension (a.md and b.TXT, not c.bin), and
\* exactly those files are attempted.
C30_ReportPartitionsCandidates ==
    \A e \in Engines :
        LET r == run[e]
            candidates == {p \in {"a.md", "b.TXT"} : disk[p] # Absent}
        IN  /\ \A k \in 1..Len(r.attempted) : r.attempted[k] # "c.bin"
            /\ r.report.returned =>
                  /\ r.report.indexed_files + r.report.skipped_files + Len(r.report.errors)
                        = Cardinality(candidates)
                  /\ {r.attempted[k] : k \in 1..Len(r.attempted)} = candidates
                  /\ Len(r.attempted) = Cardinality(candidates)

\* a call over a directory that also holds c.bin reported one file indexed
\* and one skipped
C30_Witness ==
    \E e \in Engines :
        /\ run[e].report.returned
        /\ run[e].report.indexed_files = 1
        /\ run[e].report.skipped_files = 1
        /\ disk["c.bin"] # Absent

\* C25: the chunk rows of every row of files carry the indices 0..n-1, each
\* once, and the row of index i holds the i-th chunk the chunker gave for the
\* text the file was indexed from.
C25_ChunkIndicesContiguous ==
    \A f \in files :
        LET rows == {c \in embeddings : c.file_id = f.id}
        IN  /\ {c.chunk_index : c \in rows} = 0..(Cardinality(rows) - 1)
            /\ \A c \in rows : c.content = ChunkList(f.text)[c.chunk_index + 1]

\* two files are stored, each with its two chunks
C25_Witness ==
    /\ Cardinality(files) = 2
    /\ \A f \in files : Cardinality({c \in embeddings : c.file_id = f.id}) = 2

C28_ChunksOfOneRun ==
    /\ \A p \in Paths : Cardinality({f \in files : f.file_path = p}) <= 1
    /\ sqlite_sequence.files >= 1 => files # {}
    /\ \A f \in files :
          LET rows == {c \in embeddings : c.file_id = f.id}
          IN  /\ \A c \in rows : c.by = f.by
              /\ Cardinality(rows) = f.n_chunks
              /\ {c.chunk_index : c \in rows} = 0..(f.n_chunks - 1)

\* both engines have committed an upsert of the same path: the row of the
\* later one is stored with its chunks, beside chunk rows the earlier wrote
C28_Witness ==
    /\ sqlite_sequence.files = 2
    /\ \E f \in files :
          /\ f.id = 2
          /\ f.n_chunks >= 1
          /\ \E c \in embeddings : c.by # f.by /\ c.file_id = 1

\* C27: with a batch size of 1 or more, every call of the provider is made
\* on a batch of at most batch_size chunks, the batches in call order make up
\* the chunk list from its start, and a call that ends without a provider
\* failure has covered the whole list and returns the vector of each chunk,
\* in chunk order.
C27_BatchesPartitionChunks ==
    embed.batch_size >= 1 =>
        /\ \A k \in 1..Len(embed.calls) :
              Len(embed.calls[k]) >= 1 /\ Len(embed.calls[k]) <= embed.batch_size
        /\ Len(Flatten(embed.calls)) <= Len(embed.chunks)
        /\ Flatten(embed.calls) = SubSeq(embed.chunks, 1, Len(Flatten(embed.calls)))
        /\ (embed.pc = "returned" /\ ~embed.failed) =>
              /\ Flatten(embed.calls) = embed.chunks
              /\ Len(embed.result) = Len(embed.chunks)
              /\ \A k \in 1..Len(embed.chunks) : embed.result[k] = Encode(embed.chunks[k])
              /\ embed.result = GenerateEmbeddings(embed.chunks, TRUE)

\* three chunks have been embedded in a batch of two and a batch of one
C27_Witness ==
    /\ embed.pc = "returned"
    /\ ~embed.failed
    /\ Len(embed.chunks) = 3
    /\ embed.batch_size = 2
    /\ Len(embed.calls) = 2
    /\ Len(embed.result) = 3

\* C21: get_stats() reports model_loaded true exactly when the latest
\* initialize() returned True and cleanup() has not been called since.
C21_ModelLoadedIffInitialized ==
    \A e \in Engines :
        engine[e].stats.called =>
            (engine[e].stats.model_loaded <=>
                (engine[e].last_initialize = "True" /\ ~engine[e].cleanup_since))

====
